---------------------------- MODULE Spec2Model ----------------------------
(* randwave~ : random single-period waveform generator (Pd external).      *)
(*                                                                          *)
(* The model follows src/src/randwave~.c.  One t_randwave object is         *)
(* modelled; its fields are the variables below.  Each Pd entry point       *)
(* (generate message, dsp method, perform routine, destructor) is one       *)
(* atomic action: Pd runs messages and the DSP chain on one thread.         *)
(*                                                                          *)
(* Representation choices                                                   *)
(*  - A t_floatarg v is the integer v * FloatDen (fixed point), so that     *)
(*    the float comparisons and the float -> int casts of the source are    *)
(*    different operations, as they are in C.                               *)
(*  - A C array of n elements is a sequence of length n: the element at    *)
(*    C index i is at position i + 1 (at).                                  *)
(*  - A heap pointer is a record: NULL, or a block that remembers the       *)
(*    element count given to getbytes (what freebytes must be passed).      *)
(*  - A wavetable sample is a finite float or NaN (0/0); the contents of a  *)
(*    wavetable are the set of C indices whose sample is NaN.               *)
(*  - rand() is a stream of draws; the streams enumerated are periodic.     *)
(*  - An int read from the stack beyond all_samples can hold any value.     *)
(*    It is stored saturated to the table (stray_int): a value below 0 as   *)
(*    -1, a value of wavetable_size or more as wavetable_size, a value      *)
(*    inside the table as itself.  The saturation keeps every comparison    *)
(*    with a table index.  Each int read is chosen on its own.              *)
(*  - int_qsort_compar subtracts ints: the difference wraps when the        *)
(*    operands are more than INT_MAX apart (signed overflow).  qsort with   *)
(*    a comparison that may have wrapped leaves the elements in any order;  *)
(*    otherwise it sorts them, which the saturation does not disturb.       *)
(*  - Undefined behaviour (an access outside an array, an array of         *)
(*    negative length) is a choice between a crash and carrying on with     *)
(*    whatever the access yields; a write through NULL is a crash, which    *)
(*    the store before it may or may not have preceded.                     *)
EXTENDS Integers, Sequences, FiniteSets, TLC

VARIABLES
    points,          \* x->points
    num_points,      \* x->num_points
    wavetable,       \* x->wavetable
    wavetable_size,  \* x->wavetable_size
    phase,           \* x->phase
    generated,       \* x->generated
    pc,              \* "live", "crashed", "hung" (perform never returns), "freed"
    dsp_added,       \* randwave_perform is on the DSP chain
    heap,            \* allocator bookkeeping: live blocks, and whether every free matched
    output,          \* indices of x->wavetable the last step read into the output vector
    last_op,         \* the entry point that ran last
    diag,            \* pd_error diagnostics printed by the last step
    req,             \* arguments of the randwave_generate call the last step made, if any
    stray_access     \* the process has carried on after an access outside an array

vars == << points, num_points, wavetable, wavetable_size, phase, generated, pc,
           dsp_added, heap, output, last_op, diag, req, stray_access >>

-----------------------------------------------------------------------------
(* Program constants *)

DEFAULT_WAVETABLE_SIZE == 2048

DEFAULT_NUM_INTERP_POINTS == 4

RAND_MAX == 2147483647

\* fixed-point denominator of a t_floatarg
FloatDen == 2

-----------------------------------------------------------------------------
(* Bounds of the model *)

\* largest table size requested explicitly
MaxTableSize == 5

\* period of the enumerated rand() streams
RandPeriod == 2

\* block sizes are 2^0 .. 2^MaxBlockExp (Pd vector sizes are powers of two)
MaxBlockExp == 2

-----------------------------------------------------------------------------
(* Inputs *)

RECURSIVE Pow2(_)
Pow2(e) == IF e = 0 THEN 1 ELSE 2 * Pow2(e - 1)

BlockSizes == { Pow2(e) : e \in 0..MaxBlockExp }

\* wavetable_size arguments: -5, -1/2, 0, 1, and MaxTableSize - 1, MaxTableSize - 1/2,
\* MaxTableSize
WavetableSizeArgs ==
    { -5 * FloatDen, -1, 0, FloatDen,
      FloatDen * (MaxTableSize - 1), FloatDen * MaxTableSize - 1, FloatDen * MaxTableSize }

\* num_interp_points arguments: -3, -1, 0, 3/2, and the integers 1..MaxTableSize-2
NumInterpArgs ==
    { FloatDen * v : v \in 1..(MaxTableSize - 2) }
        \cup { -3 * FloatDen, -1 * FloatDen, 0, FloatDen + 1 }

\* values one rand() call may return
RandVals == { 0, RAND_MAX }

\* a stream gives the k-th draw of a call at position (k % RandPeriod) + 1
RandStreams == [ 1..RandPeriod -> RandVals ]

\* the range of the int elements of all_samples
INT_MAX == 2147483647

INT_MIN == -INT_MAX - 1

\* an int v read from beyond all_samples, as the model stores it for a table
\* of size samples: saturated to -1 .. size
stray_int(v, size) == IF v < 0 THEN -1 ELSE IF v >= size THEN size ELSE v

\* what an int read from beyond all_samples may hold
StackInts == { INT_MIN, INT_MAX } \cup (-1)..MaxTableSize

\* the stored values of the ints read from beyond all_samples
StrayInts(size) == { stray_int(v, size) : v \in StackInts }

-----------------------------------------------------------------------------
(* Values *)

\* a null points pointer, and a null wavetable pointer
NULL == [ null |-> TRUE, n |-> 0, mem |-> << >> ]

NULL_floats == [ null |-> TRUE, n |-> 0, mem |-> { } ]

Block(n, mem) == [ null |-> FALSE, n |-> n, mem |-> mem ]

\* arr[i] for a C index i
at(arr, i) == arr[i + 1]

\* (int) f for a t_floatarg f: truncation toward zero
IntCast(f) == IF f >= 0 THEN f \div FloatDen ELSE -((-f) \div FloatDen)

Max(a, b) == IF a >= b THEN a ELSE b

sample_amplitude_pair(s, a) == [ sample |-> s, amplitude |-> a ]

\* the k-th value (k = 0, 1, ...) returned by rand() in one generate call
rand(rnd, k) == rnd[(k % RandPeriod) + 1]

-----------------------------------------------------------------------------
(* Pd allocator (getbytes / freebytes), as the object uses it *)

\* getbytes(count * sizeof elem): a zero-filled block, or NULL when the byte
\* count, converted to size_t from a negative int, cannot be served
getbytes(count, zero) ==
    IF count < 0 THEN NULL ELSE Block(count, [ p \in 1..count |-> zero ])

\* getbytes(count * sizeof(float)): all samples 0.0, none NaN
getbytes_floats(count) == Block(count, { })

heap_getbytes(h, kind, count) ==
    IF count < 0 THEN h ELSE [ h EXCEPT ![kind] = @ + 1 ]

\* if (ptr) freebytes(ptr, count * sizeof elem)
heap_freebytes(h, kind, ptr, count) ==
    IF ptr.null THEN h
    ELSE [ h EXCEPT ![kind] = @ - 1, !.ok = @ /\ ptr.n = count ]

-----------------------------------------------------------------------------
(* Utility functions *)

\* swap(&arr[a], &arr[b])
swap(arr, a, b) == [ arr EXCEPT ![a + 1] = at(arr, b), ![b + 1] = at(arr, a) ]

\* arr[i] = i + 1 for all i < n
fill(n) == SubSeq([ p \in 1..n |-> p ], 1, n)

\* the iterations i = hi, hi-1, ..., lo of the loop of shuffle; the draw of
\* iteration i is the (n-1-i)-th rand() of the call.  The iterations hi..mid+1
\* are evaluated (upper) before the iterations mid..lo are started.
RECURSIVE shuffle_range(_, _, _, _, _)
shuffle_range(arr, n, rnd, hi, lo) ==
    IF hi < lo THEN arr
    ELSE IF hi = lo THEN swap(arr, rand(rnd, n - 1 - hi) % (hi + 1), hi)
    ELSE LET mid   == (hi + lo) \div 2
             upper == shuffle_range(arr, n, rnd, hi, mid + 1)
         IN  IF Len(upper) = 0 THEN upper
             ELSE shuffle_range(upper, n, rnd, mid, lo)

shuffle(arr, n, rnd) == shuffle_range(arr, n, rnd, n - 1, 1)

\* number of rand() calls shuffle makes on an array of n elements
shuffle_draws(n) == Max(n - 1, 0)

\* (*(int*) l) - (*(int*) r) is outside the range of int
subtraction_wraps(l, r) ==
    \/ l >= 0 /\ r < 0 /\ l > INT_MAX + r
    \/ l < 0 /\ r > 0 /\ l < INT_MIN + r

\* the int difference, reduced modulo 2^32 into INT_MIN .. INT_MAX
int_qsort_compar(l, r) ==
    IF l >= 0 /\ r < 0 /\ l > INT_MAX + r THEN ((l + INT_MIN) - r) + INT_MIN
    ELSE IF l < 0 /\ r > 0 /\ l < INT_MIN + r THEN ((l - INT_MIN) - r) - INT_MIN
    ELSE l - r

\* v inserted into the ascending sequence s
RECURSIVE insert_sorted(_, _)
insert_sorted(s, v) ==
    IF Len(s) > 0 /\ int_qsort_compar(s[Len(s)], v) > 0
    THEN Append(insert_sorted(SubSeq(s, 1, Len(s) - 1), v), s[Len(s)])
    ELSE Append(s, v)

\* arr[0..k-1] in ascending order under int_qsort_compar
RECURSIVE sorted_prefix(_, _)
sorted_prefix(arr, k) ==
    IF k <= 0 THEN << >>
    ELSE insert_sorted(sorted_prefix(arr, k - 1), at(arr, k - 1))

\* mutant of qsort: the call is left out
qsort_omitted(arr, k) == arr

\* qsort(arr, k, sizeof(int), int_qsort_compar): the first k elements sorted in place
qsort(arr, k) == sorted_prefix(arr, k) \o SubSeq(arr, k + 1, Len(arr))

\* ((float) rand() / (float) RAND_MAX) * 2 - 1 for a draw r; the float result
\* is exactly -1 for r < 32 and exactly 1 for r = RAND_MAX
random_amplitude(r) == 2 * (r \div RAND_MAX) - 1

-----------------------------------------------------------------------------
(* Trigonometric interpolation, over the abstract floats "num" and "nan".   *)
(* The angle difference xi - xk is 2*pi*(i - sample)/wavetable_size; it is  *)
(* 0 exactly when i = sample, and d stands for i - sample.                  *)

\* sin(0) / (N * sin(0)) and sin(0) / (N * tan(0)) are 0/0; for x # 0 the
\* double-precision denominators are not zero
trig_cardinal(d, N) ==
    IF N = 0 THEN "num"
    ELSE IF N % 2 = 1 THEN (IF d = 0 THEN "nan" ELSE "num")
    ELSE (IF d = 0 THEN "nan" ELSE "num")

\* sum += amplitude * trig_cardinal(...) over k, then the hard limit, which
\* leaves a NaN as it is (both comparisons are false): the indices i whose
\* wavetable[i] is NaN
trig_interp(size, pts, np) ==
    { i \in 0..(size - 1) :
        \E k \in 0..(np - 1) : trig_cardinal(i - at(pts, k).sample, np) = "nan" }

\* wavetable[i] of a block
sample_at(ptr, i) == IF i \in ptr.mem THEN "nan" ELSE "num"

-----------------------------------------------------------------------------
(* randwave_generate *)

\* the condition of line 131, on the arguments as passed
invalid_num_interp_points(wavetable_size_arg, num_interp_points) ==
    num_interp_points <= 0 \/ num_interp_points > wavetable_size_arg - 2 * FloatDen

\* x->wavetable_size after lines 116-121
checked_wavetable_size(wavetable_size_arg) ==
    IF wavetable_size_arg < 0 THEN DEFAULT_WAVETABLE_SIZE ELSE IntCast(wavetable_size_arg)

\* x->num_points after lines 131-135: the assignment of line 135 is not in an
\* else branch, so it replaces the default stored by line 133
checked_num_points(wavetable_size_arg, num_interp_points) ==
    IntCast(num_interp_points + 2 * FloatDen)

\* mutant of wavetable_free_count: the size just stored is passed
wavetable_free_count_new(old_wavetable_size, new_wavetable_size) == new_wavetable_size

\* the count passed when the old wavetable is freed (line 124)
wavetable_free_count(old_wavetable_size, new_wavetable_size) == old_wavetable_size

\* lines 142-158 access memory outside an array: points[] of fewer than two
\* elements, a qsort count below 0, or a sort and copy that run past the
\* size - 2 elements of all_samples
generate_out_of_bounds(size, np) ==
    np < 2 \/ np - 2 > Max(size - 2, 0)

\* undefined behaviour in lines 142-158: an access outside an array, or
\* all_samples declared with a negative length (line 150)
generate_undefined(size, np) ==
    generate_out_of_bounds(size, np) \/ size - 2 < 0

\* the number of ints the sort and the copy read beyond all_samples
stray_reads(size, np) == Max(np - 2 - Max(size - 2, 0), 0)

\* the sort and the copy read ints beyond all_samples
reads_stack_garbage(size, np) == stray_reads(size, np) > 0

\* The ints found beyond all_samples by a call that reads them, one value
\* for each.  They all lie within the first np - 2 elements, which qsort
\* either sorts or leaves in any order (QsortOrders), so their order on the
\* stack before the call does not reach points[]: they are listed ascending.
StraySeqs(size, np) ==
    LET k == stray_reads(size, np)
    IN  { g \in [ 1..k -> StrayInts(size) ] : \A p \in 1..(k - 1) : g[p] <= g[p + 1] }

\* all_samples after fill and shuffle (lines 150-152), with the elements
\* beyond the array's size - 2 that the sort and the copy reach: they hold g
unsorted_samples(size, np, rnd, g) ==
    LET n        == size - 2
        shuffled == shuffle(fill(n), n, rnd)
        reach    == Max(Max(n, 0), np - 2)
    IN  [ p \in 1..reach |-> IF p <= n THEN shuffled[p] ELSE g[p - Max(n, 0)] ]

\* the ints the element at position p of stack may be: itself for an element
\* of all_samples, every int stored as that value for one beyond it
raw_ints(size, stack, p) ==
    IF p <= Max(size - 2, 0) THEN { stack[p] }
    ELSE { v \in StackInts : stray_int(v, size) = stack[p] }

\* some comparison qsort may make among the first np - 2 elements wraps
compar_may_wrap(size, np, stack) ==
    \E p, q \in 1..(np - 2) :
        \E l \in raw_ints(size, stack, p), r \in raw_ints(size, stack, q) :
            subtraction_wraps(l, r)

\* the orders of k elements
Orders(k) == { o \in [ 1..k -> 1..k ] : \A p, q \in 1..k : o[p] = o[q] => p = q }

\* ascending order
in_order(k) == [ p \in 1..k |-> p ]

\* The orders qsort (line 153) may leave the first np - 2 elements in,
\* relative to ascending order: any, when a comparison may have wrapped.
QsortOrders(size, np, rnd, g) ==
    IF stray_reads(size, np) > 0
         /\ compar_may_wrap(size, np, unsorted_samples(size, np, rnd, g))
    THEN Orders(np - 2)
    ELSE { in_order(np - 2) }

\* all_samples after fill, shuffle and qsort (lines 150-153), qsort leaving
\* the first np - 2 elements in the given order
sampled_positions(size, np, rnd, g, order) ==
    LET sorted == qsort(unsorted_samples(size, np, rnd, g), np - 2)
    IN  IF order = in_order(np - 2) THEN sorted
        ELSE [ p \in 1..Len(sorted) |->
                 IF p <= np - 2 THEN sorted[order[p]] ELSE sorted[p] ]

\* x->points[] after lines 142-158
generated_points(size, np, rnd, g, order) ==
    LET all_samples == sampled_positions(size, np, rnd, g, order)
        draws       == shuffle_draws(size - 2)
    IN  [ p \in 1..np |->
            LET i == p - 1
            IN  IF 1 <= i /\ i < np - 1
                THEN sample_amplitude_pair(at(all_samples, i - 1),
                                           random_amplitude(rand(rnd, draws + i - 1)))
                ELSE IF i = np - 1 THEN sample_amplitude_pair(size - 1, 0)
                ELSE sample_amplitude_pair(0, 0) ]

\* the contents of points[] and wavetable[] when the call runs to its end
generated_arrays(size, np, rnd, g, order) ==
    LET pts == generated_points(size, np, rnd, g, order)
    IN  [ points |-> pts, wavetable |-> trig_interp(size, pts, np) ]

\* the (size, np) pairs the enumerated arguments lead to, with np >= 0
GenerateSizes ==
    { << checked_wavetable_size(a), checked_num_points(a, b) >> :
        a \in WavetableSizeArgs, b \in NumInterpArgs }
      \cup { << DEFAULT_WAVETABLE_SIZE, DEFAULT_NUM_INTERP_POINTS + 2 >> }

\* QsortOrders, tabulated once for the calls the model makes
orders_table ==
    [ k \in UNION { { << q[1], q[2], rnd, g >> :
                       rnd \in RandStreams, g \in StraySeqs(q[1], q[2]) } :
                     q \in { q \in GenerateSizes : q[2] >= 0 } } |->
        QsortOrders(k[1], k[2], k[3], k[4]) ] @@ << >>

GenerateKeys ==
    UNION { { << k[1], k[2], k[3], k[4], order >> : order \in orders_table[k] } :
              k \in DOMAIN orders_table }

\* generated_arrays, tabulated once for the calls the model makes
generated_table ==
    [ k \in GenerateKeys |->
        generated_arrays(k[1], k[2], k[3], k[4], k[5]) ] @@ << >>

\* The object after randwave_generate(x, wavetable_size_arg, num_interp_points)
\* with rand() stream rnd.  crash says whether undefined behaviour, if the call
\* has any, ends the process; g holds the ints read beyond all_samples and
\* order is the order qsort leaves.  When getbytes fails (line 139) the write
\* of line 142 goes through NULL and the process dies; stored says whether the
\* store of line 139 reached x->points before that, or x->points still is the
\* block freed at line 138.
randwave_generate(wavetable_size_arg, num_interp_points, rnd, crash, g, order, stored) ==
    LET old_wavetable_size == wavetable_size
        size    == checked_wavetable_size(wavetable_size_arg)
        h1      == heap_freebytes(heap, "wavetable", wavetable,
                                  wavetable_free_count(old_wavetable_size, size))
        h2      == heap_getbytes(h1, "wavetable", size)
        old_num_points == num_points
        np      == checked_num_points(wavetable_size_arg, num_interp_points)
        h3      == heap_freebytes(h2, "points", points, old_num_points)
        h4      == heap_getbytes(h3, "points", np)
        fresh   == getbytes(np, sample_amplitude_pair(0, 0))
        anchors == IF np < 1 THEN fresh
                   ELSE Block(np, [ fresh.mem EXCEPT
                                      ![1] = sample_amplitude_pair(0, 0),
                                      ![np] = sample_amplitude_pair(size - 1, 0) ])
        dies    == np < 0 \/ (crash /\ generate_undefined(size, np))
        arrays  == generated_table[<< size, np, rnd, g, order >>]
    IN  [ wavetable_size |-> size,
          num_points     |-> np,
          heap           |-> h4,
          diag           |-> (IF wavetable_size_arg < 0 THEN { "size" } ELSE { })
                               \cup (IF invalid_num_interp_points(wavetable_size_arg,
                                                                  num_interp_points)
                                     THEN { "count" } ELSE { }),
          points         |-> IF np < 0 /\ ~stored THEN points
                             ELSE IF dies THEN anchors
                             ELSE Block(np, arrays.points),
          wavetable      |-> IF dies THEN getbytes_floats(size)
                             ELSE Block(size, arrays.wavetable),
          generated      |-> IF dies THEN generated ELSE 1,
          pc             |-> IF dies THEN "crashed" ELSE "live",
          stray          |-> ~dies /\ generate_out_of_bounds(size, np) ]

no_draws == [ k \in 1..RandPeriod |-> 0 ]

Generate ==
    /\ pc = "live"
    /\ \E a \in WavetableSizeArgs, b \in NumInterpArgs :
         LET size == checked_wavetable_size(a)
             np   == checked_num_points(a, b)
             ub   == np >= 0 /\ generate_undefined(size, np)
         IN  \E crash \in (IF np < 0 THEN { TRUE } ELSE IF ub THEN BOOLEAN ELSE { FALSE }) :
             \E g \in (IF crash THEN { << >> } ELSE StraySeqs(size, np)) :
             \E rnd \in (IF crash THEN { no_draws } ELSE RandStreams) :
             \E order \in (IF crash THEN { << >> } ELSE orders_table[<< size, np, rnd, g >>]) :
             \E stored \in (IF np < 0 THEN BOOLEAN ELSE { TRUE }) :
             \E r \in { randwave_generate(a, b, rnd, crash, g, order, stored) } :
                   /\ wavetable_size' = r.wavetable_size
                   /\ num_points' = r.num_points
                   /\ heap' = r.heap
                   /\ diag' = r.diag
                   /\ points' = r.points
                   /\ wavetable' = r.wavetable
                   /\ generated' = r.generated
                   /\ pc' = r.pc
                   /\ stray_access' = (stray_access \/ r.stray)
                   /\ req' = << a, b >>
    /\ last_op' = "generate"
    /\ output' = << >>
    /\ UNCHANGED << phase, dsp_added >>

-----------------------------------------------------------------------------
(* randwave_perform *)

\* ceil((float) x->wavetable_size / (float) n); the float quotient is exact
\* for operands this small
base_sample_increment(size, n) == (size + n - 1) \div n

\* while (i >= size) i -= size;  never ends when size <= 0 and i >= size
sub_loop_ends(i, size) == i < size \/ size > 0

\* mutant of sub_loop: while (i > size)
RECURSIVE sub_loop_strict(_, _)
sub_loop_strict(i, size) == IF i > size THEN sub_loop_strict(i - size, size) ELSE i

RECURSIVE sub_loop(_, _)
sub_loop(i, size) == IF i >= size THEN sub_loop(i - size, size) ELSE i

\* while (i < 0) i += size;  never ends when size <= 0 and i < 0
add_loop_ends(i, size) == i >= 0 \/ size > 0

RECURSIVE add_loop(_, _)
add_loop(i, size) == IF i < 0 THEN add_loop(i + size, size) ELSE i

\* lines 207-210 end
wrap_ends(i, size) ==
    sub_loop_ends(i, size) /\ add_loop_ends(sub_loop(i, size), size)

\* lines 207-210
wrap(i, size) == add_loop(sub_loop(i, size), size)

\* the while (n--) loop with n iterations left: the indices read so far, the
\* index reached, and whether a wraparound loop never ended
RECURSIVE perform_loop(_, _, _, _, _)
perform_loop(i, n, sample_increment, size, out) ==
    IF n = 0 THEN [ i |-> i, output |-> out, hung |-> FALSE ]
    ELSE LET j == i + sample_increment
         IN  IF wrap_ends(j, size)
             THEN perform_loop(wrap(j, size), n - 1, sample_increment, size, Append(out, i))
             ELSE [ i |-> j, output |-> Append(out, i), hung |-> TRUE ]

\* a read x->wavetable[i] outside the block
out_of_bounds(ptr, i) == ptr.null \/ i < 0 \/ i >= ptr.n

Perform ==
    /\ pc = "live"
    /\ dsp_added
    /\ \E n \in BlockSizes :
         \E r \in { perform_loop(phase, n, 1 * base_sample_increment(wavetable_size, n),
                                  wavetable_size, << >>) } :
         \E stray \in { \E k \in 1..Len(r.output) : out_of_bounds(wavetable, r.output[k]) } :
             \E crash \in (IF stray THEN BOOLEAN ELSE { FALSE }) :
               /\ pc' = IF crash THEN "crashed" ELSE IF r.hung THEN "hung" ELSE "live"
               /\ output' = IF crash THEN << >> ELSE r.output
               /\ phase' = IF crash \/ r.hung THEN phase ELSE r.i
               /\ stray_access' = (stray_access \/ (stray /\ ~crash))
    /\ last_op' = "perform"
    /\ diag' = { }
    /\ req' = << >>
    /\ UNCHANGED << points, num_points, wavetable, wavetable_size, generated,
                    dsp_added, heap >>

-----------------------------------------------------------------------------
(* randwave_dsp *)

\* mutant of dsp_must_generate: the test is left out
dsp_always_generates(gen) == TRUE

\* the test of line 177
dsp_must_generate(gen) == gen = 0

Dsp ==
    /\ pc = "live"
    /\ \E sr_positive \in BOOLEAN :
         /\ dsp_added' = sr_positive
         /\ IF sr_positive /\ dsp_must_generate(generated)
            THEN \E rnd \in RandStreams :
                 \E r \in { randwave_generate(DEFAULT_WAVETABLE_SIZE * FloatDen,
                                                DEFAULT_NUM_INTERP_POINTS * FloatDen,
                                                rnd, FALSE, << >>,
                                                in_order(DEFAULT_NUM_INTERP_POINTS), TRUE) } :
                       /\ wavetable_size' = r.wavetable_size
                       /\ num_points' = r.num_points
                       /\ heap' = r.heap
                       /\ diag' = r.diag
                       /\ points' = r.points
                       /\ wavetable' = r.wavetable
                       /\ generated' = r.generated
                       /\ pc' = r.pc
                       /\ stray_access' = (stray_access \/ r.stray)
                       /\ req' = << DEFAULT_WAVETABLE_SIZE * FloatDen,
                                    DEFAULT_NUM_INTERP_POINTS * FloatDen >>
            ELSE /\ diag' = { }
                 /\ req' = << >>
                 /\ UNCHANGED << wavetable_size, num_points, heap, points,
                                 wavetable, generated, pc, stray_access >>
    /\ last_op' = "dsp"
    /\ output' = << >>
    /\ UNCHANGED phase

-----------------------------------------------------------------------------
(* randwave_free *)

Free ==
    /\ pc = "live"
    /\ heap' = heap_freebytes(heap_freebytes(heap, "points", points, num_points),
                              "wavetable", wavetable, wavetable_size)
    /\ pc' = "freed"
    /\ last_op' = "free"
    /\ output' = << >>
    /\ diag' = { }
    /\ req' = << >>
    /\ UNCHANGED << points, num_points, wavetable, wavetable_size, phase, generated,
                    dsp_added, stray_access >>

-----------------------------------------------------------------------------
(* randwave_new *)

Init ==
    /\ points = NULL
    /\ num_points = 0
    /\ wavetable = NULL_floats
    /\ wavetable_size = 2048
    /\ phase = 0
    /\ generated = 0
    /\ pc = "live"
    /\ dsp_added = FALSE
    /\ heap = [ wavetable |-> 0, points |-> 0, ok |-> TRUE ]
    /\ output = << >>
    /\ last_op = "new"
    /\ diag = { }
    /\ req = << >>
    /\ stray_access = FALSE

Next == Generate \/ Dsp \/ Perform \/ Free

Spec == Init /\ [][Next]_vars

-----------------------------------------------------------------------------
(* Properties *)

\* the last step called randwave_generate
Called == req # << >>

\* the interior control points are at C indices 1 .. num_points-2
Interior == 2..(Len(points.mem) - 1)

\* the last step called generate(tableSize, interiorCount) with integers
\* tableSize >= 4 and 1 <= interiorCount <= tableSize - 2
C1_ValidRequest ==
    /\ Called
    /\ req[1] % FloatDen = 0 /\ req[2] % FloatDen = 0
    /\ req[1] >= 4 * FloatDen
    /\ FloatDen <= req[2] /\ req[2] <= req[1] - 2 * FloatDen

\* C1: a call generate(tableSize, interiorCount) with integers tableSize >= 4
\* and 1 <= interiorCount <= tableSize-2 leaves exactly interiorCount+2
\* control points, the first (0, 0), the last (tableSize-1, 0), the interior
\* positions strictly increasing (hence pairwise distinct) and within
\* [1, tableSize-2], the amplitudes within [-1, 1].
C1_ControlPoints ==
    C1_ValidRequest =>
        LET tableSize     == req[1] \div FloatDen
            interiorCount == req[2] \div FloatDen
        IN  /\ pc = "live"
            /\ ~points.null
            /\ num_points = interiorCount + 2
            /\ Len(points.mem) = interiorCount + 2
            /\ points.mem[1] = sample_amplitude_pair(0, 0)
            /\ points.mem[interiorCount + 2] = sample_amplitude_pair(tableSize - 1, 0)
            /\ \A p \in Interior :
                 /\ points.mem[p].sample \in 1..(tableSize - 2)
                 /\ points.mem[p].amplitude \in -1..1
                 /\ points.mem[p].sample < points.mem[p + 1].sample

C1_Witness ==
    /\ C1_ValidRequest
    /\ wavetable_size = 5 /\ num_points = 4
    /\ points.mem[2].sample = 2 /\ points.mem[3].sample = 3

\* C2: no block is rendered while the object is not generated; randwave_dsp
\* generates with the defaults (2048 samples, 4 interior points) when nothing
\* was generated yet, leaves a generated object as it is, and the generated
\* flag never returns to 0.
C2_LazyGeneration ==
    /\ [](dsp_added => generated = 1)
    /\ [][ /\ (last_op' = "perform" => generated = 1)
           /\ (generated = 1 => generated' = 1)
           /\ (last_op' = "dsp" /\ generated = 0 /\ dsp_added'
                 => /\ generated' = 1
                    /\ wavetable_size' = DEFAULT_WAVETABLE_SIZE
                    /\ wavetable'.n = DEFAULT_WAVETABLE_SIZE
                    /\ num_points' = DEFAULT_NUM_INTERP_POINTS + 2)
           /\ (last_op' = "dsp" /\ generated = 1
                 => /\ req' = << >>
                    /\ UNCHANGED << wavetable, wavetable_size, points, num_points >>)
         ]_vars

C2_Witness ==
    /\ last_op = "dsp" /\ Called /\ dsp_added
    /\ generated = 1 /\ wavetable_size = DEFAULT_WAVETABLE_SIZE

\* C3: whatever generate calls and blocks came before, every read
\* wavetable[phase] of a block is inside the current table (stated for tables
\* of at least two samples, in a process whose accesses were all inside
\* their arrays so far).
C3_ReadsInRange ==
    [][ last_op' = "perform" /\ ~stray_access /\ wavetable_size >= 2
          => \A k \in 1..Len(output') : 0 <= output'[k] /\ output'[k] < wavetable_size
      ]_vars

\* ceil(a / b) for a >= 0, b >= 1: the least m with m * b >= a
CeilQuotient(a, b) == CHOOSE m \in 0..a : m * b >= a /\ (m - 1) * b < a

\* the last step rendered a block on a table of at least one sample, started
\* at a phase inside the table
C4_Started ==
    /\ last_op = "perform"
    /\ wavetable_size >= 1
    /\ Len(output) >= 1
    /\ output[1] \in 0..(wavetable_size - 1)

\* C4: a block of n >= 1 samples on a table of tableSize >= 1 samples, started
\* at phase p in [0, tableSize), reads wavetable[(p + k*inc) mod tableSize] as
\* its k-th sample, inc = ceil(tableSize / n), and leaves the phase
\* (p + n*inc) mod tableSize, which is in [0, tableSize).
C4_BlockIndices ==
    C4_Started =>
        LET n   == Len(output)
            p   == output[1]
            inc == CeilQuotient(wavetable_size, n)
        IN  /\ pc = "live"
            /\ n \in BlockSizes
            /\ \A k \in 0..(n - 1) : output[k + 1] = (p + k * inc) % wavetable_size
            /\ phase = (p + n * inc) % wavetable_size
            /\ phase \in 0..(wavetable_size - 1)

C4_Witness ==
    /\ C4_Started
    /\ wavetable_size = 5 /\ Len(output) = 4
    /\ output[1] = 3 /\ output[2] = 0

\* the last step called generate with an interior-point count that is <= 0,
\* or exceeds both the requested and the stored table size minus 2
C5_InvalidCount ==
    /\ Called
    /\ \/ req[2] <= 0
       \/ /\ req[2] > req[1] - 2 * FloatDen
          /\ req[2] > (wavetable_size - 2) * FloatDen

\* C5: a generate call whose interior-point count is <= 0 or exceeds
\* tableSize - 2 prints the diagnostic and leaves DEFAULT_NUM_INTERP_POINTS + 2
\* control points (stated for calls whose accesses stay inside their arrays).
C5_DefaultCount ==
    C5_InvalidCount /\ pc = "live" /\ ~stray_access
        => /\ "count" \in diag
           /\ num_points = DEFAULT_NUM_INTERP_POINTS + 2
           /\ points.n = DEFAULT_NUM_INTERP_POINTS + 2

\* C6: a generate call with a negative table size stores the default size,
\* allocates and fills a wavetable of that size, prints the diagnostic and
\* completes with the object generated; any other call stores the requested
\* size truncated to an integer.
C6_SizeSubstitution ==
    Called =>
        IF req[1] < 0
        THEN /\ wavetable_size = DEFAULT_WAVETABLE_SIZE
             /\ ~wavetable.null /\ wavetable.n = DEFAULT_WAVETABLE_SIZE
             /\ "size" \in diag
             /\ pc = "live"
             /\ generated = 1
        ELSE wavetable_size = IntCast(req[1])

\* C7: after generate, the wavetable sample at every control point's position
\* is a number (no 0/0 was evaluated for it).
C7_ControlPointsDefined ==
    Called /\ pc = "live" /\ ~stray_access
        => \A p \in 1..Len(points.mem) :
             LET s == points.mem[p].sample
             IN  0 <= s /\ s < wavetable.n => sample_at(wavetable, s) # "nan"

\* C8: after every generate call 2 <= num_points <= wavetable_size, and
\* every stored position is in [0, wavetable_size - 1].
C8_CountWithinTable ==
    Called =>
        /\ 2 <= num_points /\ num_points <= wavetable_size
        /\ pc = "live" =>
             \A p \in 1..Len(points.mem) :
               points.mem[p].sample \in 0..(wavetable_size - 1)

C10_PerformReturns ==
    [][ last_op' = "perform" /\ ~stray_access => pc' # "hung" ]_vars

=============================================================================
